---- MODULE Spec2Model ----
(***************************************************************************)
(* The CRT terminal renderer: startup (graphics context, shader compile    *)
(* and link), the render-target pool (setupBloomResources) and the frame   *)
(* loop (draw) with its passes.  Sizes are integers; a scale factor s is   *)
(* held as the integer 1000*s, so floor(w*s) is (w*s1000) \div 1000, and   *)
(* devicePixelRatio is held as the integer 10*dpr.                          *)
(***************************************************************************)
EXTENDS Integers, Sequences, FiniteSets, TLC

VARIABLES
  pc,              \* position of the main script / the frame callback
  bootDone,        \* number of startup steps completed (index into BootSeq)
  attempts,        \* startup step -> number of times it was executed
  scales,          \* bloomConfig.scales (x1000)
  hostW, hostH,    \* webglCanvas.getBoundingClientRect() width, height
  dpr,             \* window.devicePixelRatio (x10)
  resizes,         \* number of host resize events so far
  canvasW, canvasH,\* webglCanvas.width, webglCanvas.height
  dw, dh,          \* draw's locals displayWidth, displayHeight
  offW, offH,      \* offscreenCanvas.width, offscreenCanvas.height
  screen,          \* content of the display surface: "blank" or "frame"
  pending,         \* number of requestAnimationFrame callbacks queued
  nextId,          \* next WebGL object name
  glTex,           \* live textures: name -> <<width, height>>
  glFb,            \* live framebuffers: name -> attached texture
  bloomResources,  \* the pool, or Null
  acq,             \* what the last setupBloomResources call did
  level,           \* draw's loop variable i of the blur cascade
  currentTexture,  \* draw's local currentTexture
  trace,           \* the passes issued so far by the running frame
  threshold,       \* bloomConfig.threshold (x1000)
  intensity,       \* bloomConfig.intensity (x10)
  currentThemeIndex, \* index into THEMES
  themeHist,       \* currentThemeIndex at start and after each nextTheme call
  focused,         \* state.focused
  loadTimer,       \* state.loadTimer (ms)
  chimes,          \* number of playBootupSound calls so far
  frag,              \* one fragment-shader evaluation: inputs, output, done
  source,          \* colour of the rasterized terminal image (uniform)
  pix,             \* colour held by each texture written this frame
  display,         \* colour of the display surface at each probe pixel
  fx,              \* scanlineConfig, noiseConfig and curveConfig
  text,            \* state.text, each line a sequence of characters
  prompt,          \* state.prompt, a sequence of characters
  shown,           \* what the last rasterization drew
  kev              \* one onkeydown call: state before, key, state after

vars == << pc, bootDone, attempts, scales, hostW, hostH, dpr, resizes,
           canvasW, canvasH, dw, dh, offW, offH, screen, pending, nextId,
           glTex, glFb, bloomResources, acq, level, currentTexture, trace,
           threshold, intensity, currentThemeIndex, themeHist,
           focused, loadTimer, chimes, frag, source, pix, display, fx,
           text, prompt, shown, kev >>

\* ------------------------------------------------------------------ bounds
MaxHost == 2
MaxResizes == 2
MaxThemeCalls == 7
MaxLines == 2

HostHeights == {0, 1, 2}
Dprs == {10, 25}
ScaleLists == { <<1000>>,
                <<1000, 500>>,
                <<1000, 500, 250, 125>>,
                <<1000, 800, 600, 500, 400>> }

\* ------------------------------------------------------------- arithmetic
Max(a, b) == IF a >= b THEN a ELSE b

\* Math.floor(rect * devicePixelRatio)
DisplaySize(rect, ratio) == (rect * ratio) \div 10

\* canvas.width = rect * devicePixelRatio (converted to an unsigned long)
OffscreenSizeCeil(rect, ratio) == (rect * ratio + 9) \div 10
OffscreenSize(rect, ratio) == (rect * ratio) \div 10

\* Math.max(1, Math.floor(width * scale)) in setupBloomResources
PoolScaledSizeNoClamp(d, s) == (d * s) \div 1000
PoolScaledSize(d, s) == Max(1, (d * s) \div 1000)

\* Math.max(1, Math.floor(displayWidth * scale)) in draw
PassScaledSizeCeil(d, s) == Max(1, (d * s + 999) \div 1000)
PassScaledSize(d, s) == Max(1, (d * s) \div 1000)

\* ------------------------------------------------------------ the startup
BootSeq == << "getContext",
              "vertexShader",
              "baseFragment", "baseProgram",
              "brightPassFragment", "brightPassProgram",
              "blurFragment", "blurProgram",
              "combineFragment", "combineProgram" >>

BootSteps == { BootSeq[i] : i \in 1..Len(BootSeq) }
ShaderSteps == { "vertexShader", "baseFragment", "brightPassFragment",
                 "blurFragment", "combineFragment" }
ProgramSteps == { "baseProgram", "brightPassProgram", "blurProgram",
                  "combineProgram" }

\* ---------------------------------------------------------------- the pool
Null == [ originalTexture |-> 0, brightTexture |-> 0, brightFramebuffer |-> 0,
          blurTextures |-> << >>, blurFramebuffers |-> << >>,
          tempTextures |-> << >>, tempFramebuffers |-> << >>,
          width |-> -1, height |-> -1 ]

Range(f) == { f[x] : x \in DOMAIN f }

PoolTextures(res) ==
  IF res = Null THEN {}
  ELSE {res.originalTexture, res.brightTexture}
         \cup Range(res.blurTextures) \cup Range(res.tempTextures)

PoolFramebuffers(res) ==
  IF res = Null THEN {}
  ELSE {res.brightFramebuffer}
         \cup Range(res.blurFramebuffers) \cup Range(res.tempFramebuffers)

\* the early return of setupBloomResources
CacheHitNever(res, width, height) == FALSE
CacheHit(res, width, height) ==
  res # Null /\ res.width = width /\ res.height = height

\* the objects the clean-up block deletes
ReleasedTexturesNoTemp(res) ==
  IF res = Null THEN {}
  ELSE {res.originalTexture, res.brightTexture} \cup Range(res.blurTextures)
ReleasedTextures(res) == PoolTextures(res)
ReleasedFramebuffers(res) == PoolFramebuffers(res)

\* The create calls of setupBloomResources in program order.  Call p of the
\* plan gets the object name nextId + p - 1.
PlanLen(sc) == 3 + 4 * (Len(sc) - 1)

PlanEntry(width, height, sc, p) ==
  IF p = 1 THEN [ kind |-> "tex", role |-> "original", lvl |-> 0,
                  w |-> width, h |-> height ]
  ELSE IF p = 2 THEN [ kind |-> "tex", role |-> "bright", lvl |-> 0,
                       w |-> width, h |-> height ]
  ELSE IF p = 3 THEN [ kind |-> "fb", role |-> "bright", lvl |-> 0,
                       w |-> width, h |-> height ]
  ELSE LET j == (p - 4) \div 4 + 1
           r == (p - 4) % 4
           sw == PoolScaledSize(width, sc[j + 1])
           sh == PoolScaledSize(height, sc[j + 1])
       IN  [ kind |-> IF r \in {0, 2} THEN "tex" ELSE "fb",
             role |-> IF r \in {0, 1} THEN "blur" ELSE "temp",
             lvl |-> j, w |-> sw, h |-> sh ]

\* position in the plan of the k-th createFramebuffer call
FbPos(k) == 2 * k + 1
NumFb(sc) == 1 + 2 * (Len(sc) - 1)

\* the pool record assembled at the end of setupBloomResources
BuiltPool(base, width, height, sc) ==
  [ originalTexture |-> base,
    brightTexture |-> base + 1,
    brightFramebuffer |-> base + 2,
    blurTextures |-> [ j \in 1..(Len(sc) - 1) |-> base + 3 + 4 * (j - 1) ],
    blurFramebuffers |-> [ j \in 1..(Len(sc) - 1) |-> base + 4 + 4 * (j - 1) ],
    tempTextures |-> [ j \in 1..(Len(sc) - 1) |-> base + 5 + 4 * (j - 1) ],
    tempFramebuffers |-> [ j \in 1..(Len(sc) - 1) |-> base + 6 + 4 * (j - 1) ],
    width |-> width, height |-> height ]

\* bloomResources = { ... }: the pool variable after a completed build
PoolAfterSetupKeepsOld(old, built) == IF old = Null THEN built ELSE old
PoolAfterSetup(old, built) == built

\* gl.checkFramebufferStatus: a zero-sized attachment is never complete
MustBeIncomplete(width, height) == width = 0 \/ height = 0

\* resources.blurTextures[k-1] || resources.brightTexture
BloomInputNoFallback(res, k) ==
  IF k <= Len(res.blurTextures) THEN res.blurTextures[k] ELSE 0
BloomInput(res, k) ==
  IF k <= Len(res.blurTextures) THEN res.blurTextures[k] ELSE res.brightTexture

\* the texture the horizontal pass of a level reads: currentTexture
FirstBlurInputOriginal(res) == res.originalTexture
FirstBlurInput(res) == res.brightTexture

\* the bound of the blur loop: resources.blurTextures.length
BlurLevelsSkipLast(res) == Max(0, Len(res.blurTextures) - 1)
BlurLevels(res) == Len(res.blurTextures)

\* requestAnimationFrame(draw)
RequestAnimationFrameTwice(q) == q + 2
RequestAnimationFrame(q) == q + 1

\* ------------------------------------------------- the parameter store
THEMES == << << 0, 1000, 0 >>,
             << 1000, 750, 0 >>,
             << 300, 700, 1000 >>,
             << 1000, 200, 200 >>,
             << 1000, 1000, 1000 >>,
             << 0, 1000, 1000 >> >>

\* currentThemeIndex = (currentThemeIndex + 1) % THEMES.length
NextThemeIndexNoWrap(i) == i + 1
NextThemeIndex(i) == (i + 1) % Len(THEMES)

\* THEMES[currentThemeIndex % THEMES.length]
TERMINAL_TINT_COLOR == THEMES[(currentThemeIndex % Len(THEMES)) + 1]

\* the values draw hands to gl.uniform1f / gl.uniform3f for a pass
StartupThreshold(t) == 900
UniformThreshold(t) == t
UniformIntensity(i) == i

PassUniforms(stage) ==
  [ threshold |-> IF stage = "bright" THEN UniformThreshold(threshold) ELSE -1,
    intensity |-> IF stage = "combine" THEN UniformIntensity(intensity) ELSE -1,
    tint |-> IF stage = "combine" THEN TERMINAL_TINT_COLOR ELSE << >> ]

\* ---------------------------------------------------- binding handles
\* gl.getUniformLocation(program, name) / gl.getAttribLocation(program, name)
Handle(program, name) == [ program |-> program, name |-> name ]

brightPassUniforms ==
  { Handle("brightPassProgram", n) : n \in { "u_texture", "u_threshold", "u_flipY" } }

blurUniforms ==
  { Handle("blurProgram", n) :
      n \in { "u_texture", "u_direction", "u_resolution", "u_radius", "u_flipY" } }

CombineUniformNames ==
  { "u_original", "u_bloom1", "u_bloom2", "u_bloom3", "u_bloomIntensity",
    "u_tintColor", "u_scanlineIntensity", "u_scanlineFrequency",
    "u_noiseIntensity", "u_noisePixelSize", "u_time", "u_resolution",
    "u_curvature", "u_vignetteStrength", "u_vignetteSize", "u_screenScale" }

combineUniforms == { Handle("combineProgram", n) : n \in CombineUniformNames }

positionAttributeLocation == Handle("baseProgram", "a_position")
texCoordAttributeLocation == Handle("baseProgram", "a_texCoord")

\* every handle the script resolves
ResolvedHandles ==
  brightPassUniforms \cup blurUniforms \cup combineUniforms
    \cup { positionAttributeLocation, texCoordAttributeLocation }

\* the names a stage's shaders declare (shared vertex shader + its fragment shader)
VertexShaderNames == { "a_position", "a_texCoord", "u_flipY" }

StageNames(program) ==
  VertexShaderNames \cup
    ( IF program = "baseProgram" THEN { "u_texture" }
      ELSE IF program = "brightPassProgram" THEN { "u_texture", "u_threshold" }
      ELSE IF program = "blurProgram"
        THEN { "u_texture", "u_direction", "u_resolution", "u_radius" }
      ELSE CombineUniformNames )

\* the handles a pass hands to gl.uniform* and, in setupVertexAttributes,
\* to gl.vertexAttribPointer
PassHandles(stage) ==
  IF stage = "bright"
    THEN brightPassUniforms \cup { positionAttributeLocation, texCoordAttributeLocation }
  ELSE IF stage \in { "blurH", "blurV" }
    THEN blurUniforms \cup { positionAttributeLocation, texCoordAttributeLocation }
  ELSE IF stage = "combine"
    THEN combineUniforms \cup { positionAttributeLocation, texCoordAttributeLocation }
  ELSE { }

Entry(stage, program, target, vw, vh, inputs, lvl) ==
  [ stage |-> stage, program |-> program, target |-> target,
    vw |-> vw, vh |-> vh, inputs |-> inputs, lvl |-> lvl,
    handles |-> PassHandles(stage), uniforms |-> PassUniforms(stage) ]

\* ---------------------------------------------------- shader arithmetic
\* shader floats are fixed-point numbers, ONE standing for 1.0
ONE == 10000

FMul(a, b) == (a * b) \div ONE
FDiv(a, b) == (a * ONE) \div b
Clamp01(x) == IF x < 0 THEN 0 ELSE IF x > ONE THEN ONE ELSE x

Vec4(r, g, b, a) == [ r |-> r, g |-> g, b |-> b, a |-> a ]
Vec2(x, y) == [ x |-> x, y |-> y ]

OpaqueBlack == Vec4(0, 0, 0, ONE)
White == Vec4(ONE, ONE, ONE, ONE)
Untracked == Vec4(-1, -1, -1, -1)

\* dot(color.rgb, vec3(0.299, 0.587, 0.114)) > u_threshold, the threshold
\* given in thousandths
AboveThresholdOrEqual(color, t) == 299 * color.r + 587 * color.g + 114 * color.b >= t * ONE
AboveThreshold(color, t) == 299 * color.r + 587 * color.g + 114 * color.b > t * ONE

\* main of the bright pass fragment shader
BrightPass(color, t) == IF AboveThreshold(color, t) THEN color ELSE OpaqueBlack

\* curveScreen: barrel distortion of a texture coordinate
curveScreen(uv, curvature, screenScale) ==
  LET cx == 2 * uv.x - ONE
      cy == 2 * uv.y - ONE
      r2 == FMul(cx, cx) + FMul(cy, cy)
      distortion == ONE + FMul(curvature, r2)
  IN  Vec2((FMul(FMul(cx, distortion), screenScale) + ONE) \div 2,
           (FMul(FMul(cy, distortion), screenScale) + ONE) \div 2)

\* curvedCoord.x < 0.0 || curvedCoord.x > 1.0 || curvedCoord.y < 0.0 || curvedCoord.y > 1.0
OutsideScreenNoUpperBound(c) == c.x < 0 \/ c.y < 0
OutsideScreen(c) == c.x < 0 \/ c.x > ONE \/ c.y < 0 \/ c.y > ONE

\* sin(y * 3.14159) for y in [0, 1], by Bhaskara's rational approximation
\* 16 y (1 - y) / (5 - 4 y (1 - y)): 0 at the ends, 1 at y = 0.5 only
SinPi(y) ==
  LET p == FMul(y, ONE - y)
  IN  (16 * p * ONE) \div (5 * ONE - 4 * p)

\* sin(curvedCoord.y * 3.14159) * 0.1 + 0.9
horizontalFadeNone(y) == ONE
horizontalFade(y) == FMul(SinPi(y), 1000) + 9000

RECURSIVE ISqrtBetween(_, _, _)
ISqrtBetween(n, lo, hi) ==
  IF lo >= hi THEN lo
  ELSE LET mid == (lo + hi + 1) \div 2
       IN  IF mid * mid <= n THEN ISqrtBetween(n, mid, hi)
           ELSE ISqrtBetween(n, lo, mid - 1)

\* length(v)
Length(v) == ISqrtBetween(v.x * v.x + v.y * v.y, 0, 2 * ONE)

\* smoothstep(edge0, edge1, x) and mix(a, b, t)
smoothstep(edge0, edge1, x) ==
  LET t == Clamp01(FDiv(x - edge0, edge1 - edge0))
  IN  FMul(FMul(t, t), 3 * ONE - 2 * t)
mix(a, b, t) == FMul(a, ONE - t) + FMul(b, t)

\* the vignette factor of the combine shader
Vignette(uv, vignetteStrength, vignetteSize) ==
  LET vignetteCoord == Vec2(2 * uv.x - ONE, 2 * uv.y - ONE)
      vignette == ONE - smoothstep(vignetteSize, ONE, Length(vignetteCoord))
  IN  mix(ONE - vignetteStrength, ONE, vignette)

\* original.rgb *= u_tintColor
Tinted(c, tint) == Vec4(FMul(c.r, tint.r), FMul(c.g, tint.g), FMul(c.b, tint.b), c.a)

\* (bloom1 + bloom2 + bloom3) * u_bloomIntensity
BloomSumUnscaled(b1, b2, b3, i) ==
  Vec4(b1.r + b2.r + b3.r, b1.g + b2.g + b3.g, b1.b + b2.b + b3.b,
       b1.a + b2.a + b3.a)
BloomSum(b1, b2, b3, i) ==
  Vec4(FMul(b1.r + b2.r + b3.r, i), FMul(b1.g + b2.g + b3.g, i),
       FMul(b1.b + b2.b + b3.b, i), FMul(b1.a + b2.a + b3.a, i))

\* main of the combine fragment shader. u holds the uniforms, the pixel's
\* texture coordinate uv, the four texels sampled at the curved coordinate,
\* and the two time-dependent values: random(...) in [0, 1) and
\* sin(scanlineY + u_time) in [-1, 1]
CombineShader(u) ==
  LET curvedCoord == curveScreen(u.uv, u.curvature, u.screenScale)
      original == Tinted(u.original, u.tint)
      bloom == BloomSum(Tinted(u.bloom1, u.tint), Tinted(u.bloom2, u.tint),
                        Tinted(u.bloom3, u.tint), u.intensity)
      noise == FMul(2 * u.random - ONE, u.noiseIntensity)
      scanline == (u.wave + ONE) \div 2
      scanlineFactor == FMul(ONE - FMul(scanline, u.scanlineIntensity),
                             horizontalFade(curvedCoord.y))
      vignette == Vignette(u.uv, u.vignetteStrength, u.vignetteSize)
      Shade(x) == FMul(FMul(x + noise, scanlineFactor), vignette)
  IN  IF OutsideScreen(curvedCoord) THEN OpaqueBlack
      ELSE Vec4(Shade(original.r + bloom.r), Shade(original.g + bloom.g),
                Shade(original.b + bloom.b), original.a + bloom.a)

\* ------------------------------------------- one shader evaluation (frag)
Tint(r, g, b) == [ r |-> r, g |-> g, b |-> b ]

ShaderRun(kind, uv, original, blooms, t, i, tint, noise, scan, k, ss, vs) ==
  [ kind |-> kind, uv |-> uv, original |-> original,
    bloom1 |-> blooms[1], bloom2 |-> blooms[2], bloom3 |-> blooms[3],
    threshold |-> t, intensity |-> i, tint |-> tint,
    noiseIntensity |-> noise[1], random |-> noise[2],
    scanlineIntensity |-> scan[1], wave |-> scan[2],
    curvature |-> k, screenScale |-> ss,
    vignetteStrength |-> vs, vignetteSize |-> 8000,
    out |-> Untracked, done |-> FALSE ]

Black == Vec4(0, 0, 0, 0)
Grey == Vec4(5000, 5000, 5000, ONE)

NoRun ==
  ShaderRun("none", Vec2(0, 0), Black, << Black, Black, Black >>, 0, 0,
            Tint(ONE, ONE, ONE), << 0, 0 >>, << 0, 0 >>, 0, ONE, 0)

\* texels and thresholds handed to the bright pass
Levels == { 0, 5000, ONE }
Thresholds == { 0, 500, 587, 900, 1000 }

BrightRuns ==
  { ShaderRun("bright", Vec2(0, 0), Vec4(cr, cg, cb, ca), << Black, Black, Black >>,
              t, 0, Tint(ONE, ONE, ONE), << 0, 0 >>, << 0, 0 >>, 0, ONE, 0) :
      cr \in Levels, cg \in Levels, cb \in Levels, ca \in { 5000, ONE },
      t \in Thresholds }

\* pixels, texels and uniforms handed to the combine shader
Coords == { 0, 2500, 5000, 9500, ONE }
BloomTriples == { << Black, Black, Black >>, << White, Black, Black >>,
                  << Black, Grey, Black >>, << Black, Black, White >>,
                  << Grey, Grey, Grey >> }
Intensities == { 0, 6000, ONE }
Tints == { Tint(ONE, ONE, ONE), Tint(ONE, 7500, 0) }
Noises == { << 0, 2500 >>, << 900, 2500 >>, << 900, 7500 >> }
Scans == { << 0, ONE >>, << 7000, ONE >>, << 7000, 0 >> }
Curvatures == { 0, 750 }
ScreenScales == { 9500, ONE }
VignetteStrengths == { 0, 1000 }

CombineRuns ==
  { ShaderRun("combine", Vec2(x, y), o, bl, 0, i, tint, n, sc, k, ss, vs) :
      x \in Coords, y \in Coords, o \in { White, Grey }, bl \in BloomTriples,
      i \in Intensities, tint \in Tints, n \in Noises, sc \in Scans,
      k \in Curvatures, ss \in ScreenScales, vs \in VignetteStrengths }

\* ------------------------------------------------ pixels in the pipeline
\* RGBA8 storage: a texel read from a byte, a shader output written as bytes
Texel(c) == Vec4((c.r * ONE) \div 255, (c.g * ONE) \div 255,
                 (c.b * ONE) \div 255, (c.a * ONE) \div 255)
StoreRGBA8(v) ==
  Vec4((Clamp01(v.r) * 255 + ONE \div 2) \div ONE,
       (Clamp01(v.g) * 255 + ONE \div 2) \div ONE,
       (Clamp01(v.b) * 255 + ONE \div 2) \div ONE,
       (Clamp01(v.a) * 255 + ONE \div 2) \div ONE)

WhiteBytes == Vec4(255, 255, 255, 255)
GreyBytes == Vec4(128, 128, 128, 255)
BlackBytes == Vec4(0, 0, 0, 255)
EmptyBytes == Vec4(0, 0, 0, 0)

\* texture contents by texture name; a texture never rendered to is empty
ReadPix(p, id) == IF id \in DOMAIN p THEN p[id] ELSE EmptyBytes
WritePix(p, id, c) ==
  [ i \in DOMAIN p \cup { id } |-> IF i = id THEN c ELSE p[i] ]

\* weights[0..10] of the blur shader, in units of 0.00001
weights == << 5299, 5268, 5175, 5020, 4810, 4551, 4252, 3924, 3576, 3220, 2867 >>

\* the 21 taps of the blur shader over a texture of one uniform colour x
\* (CLAMP_TO_EDGE, so taps past the border read the same colour)
RECURSIVE BlurTaps(_, _)
BlurTaps(x, i) ==
  IF i > 10 THEN 0
  ELSE x * weights[i + 1] + x * weights[i + 1] + BlurTaps(x, i + 1)

BlurChannel(x) == (x * weights[1] + BlurTaps(x, 1)) \div 100000

BlurShader(c) ==
  Vec4(BlurChannel(c.r), BlurChannel(c.g), BlurChannel(c.b), BlurChannel(c.a))

\* weights[0..4] of the older 9-tap blur shader, rounded to units of 0.00001
legacyWeights == << 22703, 19459, 12162, 5405, 1622 >>

RECURSIVE LegacyBlurTaps(_, _)
LegacyBlurTaps(x, i) ==
  IF i > 4 THEN 0
  ELSE x * legacyWeights[i + 1] + x * legacyWeights[i + 1] + LegacyBlurTaps(x, i + 1)

LegacyBlurChannel(x) == (x * legacyWeights[1] + LegacyBlurTaps(x, 1)) \div 100000

\* the config objects of the script, and a setting with every effect off
DefaultFx ==
  [ scanlineIntensity |-> 7000, noiseIntensity |-> 900, curvature |-> 750,
    vignetteStrength |-> 1000, vignetteSize |-> 8000, screenScale |-> 9500 ]
NeutralFx ==
  [ scanlineIntensity |-> 0, noiseIntensity |-> 0, curvature |-> 0,
    vignetteStrength |-> 0, vignetteSize |-> 8000, screenScale |-> 9500 ]

\* the pixels of the display surface that are followed
Probes == { Vec2(x, y) : x \in Coords, y \in Coords }

TintOf(theme) == Tint(theme[1] * 10, theme[2] * 10, theme[3] * 10)

\* the combine pass at pixel uv with its four textures of uniform colour
CombineAt(uv, original, b1, b2, b3, rnd, wave) ==
  StoreRGBA8(CombineShader(
    [ uv |-> uv, original |-> Texel(original), bloom1 |-> Texel(b1),
      bloom2 |-> Texel(b2), bloom3 |-> Texel(b3),
      intensity |-> intensity * 1000, tint |-> TintOf(TERMINAL_TINT_COLOR),
      noiseIntensity |-> fx.noiseIntensity, random |-> rnd,
      scanlineIntensity |-> fx.scanlineIntensity, wave |-> wave,
      curvature |-> fx.curvature, screenScale |-> fx.screenScale,
      vignetteStrength |-> fx.vignetteStrength,
      vignetteSize |-> fx.vignetteSize ]))

\* --------------------------------------------------------- the terminal
loadTime == 2000

\* performance.now() - previousTime at a frame, in ms
Dts == { 500, 1000, 1500 }

\* state.loadTimer >= loadTime after the increment: playBootupSound()
FinishedLoadingStrict(timer) == timer > loadTime
FinishedLoading(timer) == timer >= loadTime

\* the branch renderTerminalToOffscreen takes
PhaseOrEqual(f, timer) ==
  IF ~ f THEN "click" ELSE IF timer <= loadTime THEN "loading" ELSE "ready"
Phase(f, timer) ==
  IF ~ f THEN "click" ELSE IF timer < loadTime THEN "loading" ELSE "ready"

\* what a rasterization draws: the phase, and in the ready phase the lines of
\* state.text followed by the prompt line
RenderedNoPrompt(phase, t, p) ==
  [ phase |-> phase, text |-> IF phase = "ready" THEN t ELSE << >>,
    prompt |-> << >> ]
Rendered(phase, t, p) ==
  [ phase |-> phase, text |-> IF phase = "ready" THEN t ELSE << >>,
    prompt |-> IF phase = "ready" THEN p ELSE << >> ]

NoShown == Rendered("none", << >>, << >>)

\* ----------------------------------------------------------- the keyboard
promptMarker == << ">", " " >>
WelcomeLine == << "W", "E", "L", "C", "O", "M", "E", " ", "T", "O", " ", "T", "H", "E", " ", "C", "A", "N", "V", "A", "S", " ", "T", "E", "R", "M", "I", "N", "A", "L" >>
HelpLine == << "[", "H", "E", "L", "P", " ", "T", "E", "X", "T", " ", "H", "E", "R", "E", "]" >>
UnknownCommand == << "U", "n", "k", "n", "o", "w", "n", " ", "c", "o", "m", "m", "a", "n", "d", ":", " " >>
Help == << "h", "e", "l", "p" >>
Clear == << "c", "l", "e", "a", "r" >>

\* String.prototype.trim, for the one whitespace character a key can give
RECURSIVE TrimStart(_)
TrimStart(s) == IF s # << >> /\ Head(s) = " " THEN TrimStart(Tail(s)) ELSE s

RECURSIVE TrimEnd(_)
TrimEnd(s) ==
  IF s # << >> /\ s[Len(s)] = " " THEN TrimEnd(SubSeq(s, 1, Len(s) - 1)) ELSE s

Trim(s) == TrimEnd(TrimStart(s))

\* s.split(' ')[0]
RECURSIVE FirstToken(_)
FirstToken(s) ==
  IF s = << >> \/ Head(s) = " " THEN << >>
  ELSE << Head(s) >> \o FirstToken(Tail(s))

\* trimmedInput.split(' ')[0]
CommandOfNoTrim(p) == FirstToken(p)
CommandOf(p) == FirstToken(Trim(p))

\* state.text = []
ClearedKeepsEcho(echoed) == << echoed[Len(echoed)] >>
Cleared(echoed) == << >>

\* the Enter branch of onkeydown
OnEnter(t, p) ==
  LET echoed == Append(t, promptMarker \o p \o << " " >>)
      command == CommandOf(p)
  IN  [ text |-> IF command = Help THEN Append(echoed, HelpLine)
                 ELSE IF command = Clear THEN Cleared(echoed)
                 ELSE IF Trim(p) = << >> THEN echoed
                 ELSE Append(echoed, UnknownCommand \o command \o << " " >>),
        prompt |-> << >> ]

\* event.key values longer than one character
NamedKeys == { "Enter", "Backspace", "Shift" }

\* window.onkeydown
OnKeyDown(t, p, key) ==
  IF key = "Enter" THEN OnEnter(t, p)
  ELSE IF key = "Backspace"
    THEN [ text |-> t, prompt |-> SubSeq(p, 1, Len(p) - 1) ]
  ELSE IF key \notin NamedKeys THEN [ text |-> t, prompt |-> Append(p, key) ]
  ELSE [ text |-> t, prompt |-> p ]

\* one call of the handler as a run: the state before, the key, the state after
KeyRun(t, p, key) ==
  [ text |-> t, prompt |-> p, key |-> key, outText |-> << >>,
    outPrompt |-> << >>, done |-> FALSE ]

NoKeyRun == KeyRun(<< >>, << >>, "none")

\* prompts, scrollbacks and keys handed to the handler
Prompts ==
  { << >>, << " " >>, << " ", " " >>, Help, << " " >> \o Help \o << " " >>,
    Help \o << " ", "m", "e" >>, Help \o << "x" >>, << "h", "e", " ", "l", "p" >>,
    Clear, << " ", " " >> \o Clear \o << " ", "x" >>, Clear \o << "x" >>,
    << "c", "l", "e", " ", "a", "r" >>, << "x" >>, << "x", " ", "y" >>,
    << " ", "x" >>, << "x", " " >> }
Scrollbacks ==
  { << >>, << WelcomeLine >>, << WelcomeLine, promptMarker \o << "x", " " >> >>,
    << HelpLine, WelcomeLine, HelpLine >> }
Keys == NamedKeys \cup { "x", " ", "p" }

KeyRuns == { KeyRun(t, p, key) : t \in Scrollbacks, p \in Prompts, key \in Keys }

Step(stage) == Entry(stage, "none", -1, 0, 0, << >>, 0)

NoAcq == [ kind |-> "none", released |-> {}, allocated |-> {} ]

\* ------------------------------------------------------------------- Init
InitCommon ==
  /\ pc = "boot"
  /\ bootDone = 0
  /\ attempts = [ s \in BootSteps |-> 0 ]
  /\ resizes = 0
  /\ canvasW = 300 /\ canvasH = 150
  /\ dw = 0 /\ dh = 0
  /\ offW = 0 /\ offH = 0
  /\ screen = "blank"
  /\ pending = 0
  /\ nextId = 1
  /\ glTex = << >>
  /\ glFb = << >>
  /\ bloomResources = Null
  /\ acq = NoAcq
  /\ level = 0
  /\ currentTexture = 0
  /\ trace = << >>
  /\ currentThemeIndex = 0
  /\ themeHist = << 0 >>
  /\ focused = FALSE
  /\ loadTimer = 0
  /\ chimes = 0
  /\ text = << WelcomeLine >>
  /\ prompt = << >>
  /\ shown = NoShown

InitHost ==
  /\ hostW \in 0..MaxHost
  /\ hostH \in HostHeights
  /\ dpr \in Dprs

\* no shader evaluation under way, pixel contents not followed
InitNoPixels ==
  /\ frag = NoRun
  /\ source = Untracked
  /\ pix = << >>
  /\ display = << >>
  /\ fx = DefaultFx

Init ==
  /\ InitCommon
  /\ InitHost
  /\ InitNoPixels
  /\ kev = NoKeyRun
  /\ scales \in ScaleLists
  /\ threshold = 900
  /\ intensity = 6

pixVars == << source, pix, display, fx >>

paramVars == << threshold, intensity, currentThemeIndex, themeHist >>
termVars == << focused, loadTimer, chimes >>
keyVars == << text, prompt >>

frameVars == << canvasW, canvasH, dw, dh, offW, offH, screen, pending, nextId,
                glTex, glFb, bloomResources, acq, level, currentTexture, trace >>
hostVars == << scales, hostW, hostH, dpr, resizes >>

\* ---------------------------------------------------------------- startup
\* where a failed startup step leaves the script
AfterThrowRetry(ok) == IF ok THEN "boot" ELSE "boot"
AfterThrow(ok) == IF ok THEN "boot" ELSE "halted"

BootStep(stepSet, ok) ==
  /\ pc = "boot"
  /\ bootDone < Len(BootSeq)
  /\ BootSeq[bootDone + 1] \in stepSet
  /\ attempts' = [ attempts EXCEPT ![BootSeq[bootDone + 1]] = @ + 1 ]
  /\ bootDone' = IF ok THEN bootDone + 1 ELSE bootDone
  /\ pc' = IF ok /\ bootDone + 1 = Len(BootSeq) THEN "loaded" ELSE AfterThrow(ok)
  /\ UNCHANGED << hostVars, frameVars, paramVars, termVars, frag, kev, keyVars, shown, pixVars >>

\* webglCanvas.getContext('webgl2') || webglCanvas.getContext('webgl')
GetContext == \E ok \in BOOLEAN : BootStep({"getContext"}, ok)

CreateShader == \E ok \in BOOLEAN : BootStep(ShaderSteps, ok)

CreateProgram == \E ok \in BOOLEAN : BootStep(ProgramSteps, ok)

\* ------------------------------------------------------------- frame loop
\* the draw() call that ends the main script
CallDraw(first) ==
  /\ pc = "loaded"
  /\ pc' = first
  /\ trace' = << >>
  /\ UNCHANGED << bootDone, attempts, hostVars, paramVars, termVars, frag, kev, keyVars, shown, pixVars, canvasW, canvasH, dw, dh, offW,
                  offH, screen, pending, nextId, glTex, glFb, bloomResources,
                  acq, level, currentTexture >>

InitialDraw == CallDraw("resize")

\* the browser runs a queued animation-frame callback
RunCallback(first) ==
  /\ pc = "idle"
  /\ pending > 0
  /\ pending' = pending - 1
  /\ pc' = first
  /\ trace' = << >>
  /\ UNCHANGED << bootDone, attempts, hostVars, paramVars, termVars, frag, kev, keyVars, shown, pixVars, canvasW, canvasH, dw, dh, offW,
                  offH, screen, nextId, glTex, glFb, bloomResources, acq, level,
                  currentTexture >>

AnimationFrame == RunCallback("resize")

\* webglCanvas.width = displayWidth; webglCanvas.height = displayHeight
\* (assigning a canvas dimension clears its drawing buffer)
ResizeCanvas(next) ==
  /\ pc = "resize"
  /\ dw' = DisplaySize(hostW, dpr)
  /\ dh' = DisplaySize(hostH, dpr)
  /\ canvasW' = dw'
  /\ canvasH' = dh'
  /\ screen' = "blank"
  /\ trace' = Append(trace, Step("resize"))
  /\ pc' = next
  /\ UNCHANGED << bootDone, attempts, hostVars, paramVars, termVars, frag, kev, keyVars, shown, pixVars, offW, offH, pending, nextId,
                  glTex, glFb, bloomResources, acq, level, currentTexture >>

DrawResize == ResizeCanvas("raster")

\* renderTerminalToOffscreen(offscreenCanvas, offscreenCtx, webglCanvas)
RenderTerminalToOffscreen(next) ==
  /\ pc = "raster"
  /\ offW' = OffscreenSize(hostW, dpr)
  /\ offH' = OffscreenSize(hostH, dpr)
  /\ IF Phase(focused, loadTimer) = "loading"
       THEN \E dt \in Dts :
              /\ loadTimer' = loadTimer + dt
              /\ chimes' = IF FinishedLoading(loadTimer') THEN chimes + 1
                            ELSE chimes
       ELSE UNCHANGED << loadTimer, chimes >>
  /\ shown' = Rendered(Phase(focused, loadTimer), text, prompt)
  /\ trace' = Append(trace, Step("raster"))
  /\ pc' = next
  /\ UNCHANGED << bootDone, attempts, hostVars, paramVars, focused, frag, kev, keyVars, pixVars, canvasW, canvasH, dw, dh,
                  screen, pending, nextId, glTex, glFb, bloomResources, acq,
                  level, currentTexture >>

DrawRaster == RenderTerminalToOffscreen("acquire")

\* setupBloomResources(width, height); failAt = k > 0 when the k-th
\* createFramebuffer call finds the framebuffer incomplete and throws
SetupBloomResources(width, height, failAt) ==
  IF CacheHit(bloomResources, width, height)
  THEN /\ failAt = 0
       /\ acq' = [ kind |-> "hit", released |-> {}, allocated |-> {} ]
       /\ UNCHANGED << nextId, glTex, glFb, bloomResources >>
  ELSE LET n == IF failAt = 0 THEN PlanLen(scales) ELSE FbPos(failAt)
           plan == [ p \in 1..n |-> PlanEntry(width, height, scales, p) ]
           newTex == { nextId + p - 1 : p \in { q \in 1..n : plan[q].kind = "tex" } }
           newFb == { nextId + p - 1 : p \in { q \in 1..n : plan[q].kind = "fb" } }
           goneTex == ReleasedTextures(bloomResources) \cap DOMAIN glTex
           goneFb == ReleasedFramebuffers(bloomResources) \cap DOMAIN glFb
           keptTex == DOMAIN glTex \ goneTex
           keptFb == DOMAIN glFb \ goneFb
       IN  /\ failAt \in 0..NumFb(scales)
           /\ MustBeIncomplete(width, height) => failAt = 1
           /\ glTex' = [ x \in keptTex \cup newTex |->
                           IF x \in newTex
                           THEN << plan[x - nextId + 1].w, plan[x - nextId + 1].h >>
                           ELSE glTex[x] ]
           /\ glFb' = [ x \in keptFb \cup newFb |->
                          IF x \in newFb THEN x - 1 ELSE glFb[x] ]
           /\ nextId' = nextId + n
           /\ bloomResources' =
                IF failAt = 0
                  THEN PoolAfterSetup(bloomResources,
                                      BuiltPool(nextId, width, height, scales))
                ELSE bloomResources
           /\ acq' = [ kind |-> IF failAt = 0 THEN "built" ELSE "failed",
                       released |-> goneTex \cup goneFb,
                       allocated |-> newTex \cup newFb ]

DrawAcquire ==
  /\ pc = "acquire"
  /\ \E failAt \in 0..NumFb(scales) : SetupBloomResources(dw, dh, failAt)
  /\ trace' = Append(trace, Step("acquire"))
  /\ pc' = IF acq'.kind = "failed" THEN "halted" ELSE "upload"
  /\ UNCHANGED << bootDone, attempts, hostVars, paramVars, termVars, frag, kev, keyVars, shown, pixVars, canvasW, canvasH, dw, dh, offW,
                  offH, screen, pending, level, currentTexture >>

\* Step 1: gl.texImage2D(..., offscreenCanvas) into resources.originalTexture
DrawUpload ==
  /\ pc = "upload"
  /\ glTex' = [ glTex EXCEPT ![bloomResources.originalTexture] = << offW, offH >> ]
  /\ trace' = Append(trace, Entry("upload", "none", bloomResources.originalTexture,
                                  offW, offH, << >>, 0))
  /\ pix' = IF source = Untracked THEN pix
            ELSE WritePix(pix, bloomResources.originalTexture, source)
  /\ pc' = "bright"
  /\ UNCHANGED << bootDone, attempts, hostVars, paramVars, termVars, frag, kev, keyVars, shown, source, display, fx, canvasW, canvasH, dw, dh, offW,
                  offH, screen, pending, nextId, glFb, bloomResources, acq,
                  level, currentTexture >>

\* Step 2: bright pass into resources.brightFramebuffer
DrawBright ==
  /\ pc = "bright"
  /\ trace' = Append(trace, Entry("bright", "brightPassProgram",
                                  bloomResources.brightFramebuffer, dw, dh,
                                  << bloomResources.originalTexture >>, 0))
  /\ currentTexture' = FirstBlurInput(bloomResources)
  /\ level' = 0
  /\ pix' = IF source = Untracked THEN pix
            ELSE WritePix(pix, bloomResources.brightTexture,
                   StoreRGBA8(BrightPass(
                     Texel(ReadPix(pix, bloomResources.originalTexture)),
                     threshold)))
  /\ pc' = IF 0 < BlurLevels(bloomResources) THEN "blurH" ELSE "combine"
  /\ UNCHANGED << bootDone, attempts, hostVars, paramVars, termVars, frag, kev, keyVars, shown, source, display, fx, canvasW, canvasH, dw, dh, offW,
                  offH, screen, pending, nextId, glTex, glFb, bloomResources, acq >>

\* bloomConfig.scales[i + 1] (undefined past the end gives a NaN size, which
\* gl.viewport takes as 0)
PassSize(d, i) ==
  IF i + 2 <= Len(scales) THEN PassScaledSize(d, scales[i + 2]) ELSE 0

\* Step 3, horizontal pass of level i into resources.tempFramebuffers[i]
DrawBlurH ==
  /\ pc = "blurH"
  /\ trace' = Append(trace, Entry("blurH", "blurProgram",
                                  bloomResources.tempFramebuffers[level + 1],
                                  PassSize(dw, level), PassSize(dh, level),
                                  << currentTexture >>, level))
  /\ pix' = IF source = Untracked THEN pix
            ELSE WritePix(pix, bloomResources.tempTextures[level + 1],
                   StoreRGBA8(BlurShader(Texel(ReadPix(pix, currentTexture)))))
  /\ pc' = "blurV"
  /\ UNCHANGED << bootDone, attempts, hostVars, paramVars, termVars, frag, kev, keyVars, shown, source, display, fx, canvasW, canvasH, dw, dh, offW,
                  offH, screen, pending, nextId, glTex, glFb, bloomResources,
                  acq, level, currentTexture >>

\* Step 3, vertical pass of level i into resources.blurFramebuffers[i]
DrawBlurV ==
  /\ pc = "blurV"
  /\ trace' = Append(trace, Entry("blurV", "blurProgram",
                                  bloomResources.blurFramebuffers[level + 1],
                                  PassSize(dw, level), PassSize(dh, level),
                                  << bloomResources.tempTextures[level + 1] >>,
                                  level))
  /\ currentTexture' = bloomResources.blurTextures[level + 1]
  /\ level' = level + 1
  /\ pix' = IF source = Untracked THEN pix
            ELSE WritePix(pix, bloomResources.blurTextures[level + 1],
                   StoreRGBA8(BlurShader(Texel(
                     ReadPix(pix, bloomResources.tempTextures[level + 1])))))
  /\ pc' = IF level + 1 < BlurLevels(bloomResources) THEN "blurH"
           ELSE "combine"
  /\ UNCHANGED << bootDone, attempts, hostVars, paramVars, termVars, frag, kev, keyVars, shown, source, display, fx, canvasW, canvasH, dw, dh, offW,
                  offH, screen, pending, nextId, glTex, glFb, bloomResources, acq >>

\* Step 4: combine pass into the default framebuffer (the display surface)
DrawCombine ==
  /\ pc = "combine"
  /\ trace' = Append(trace, Entry("combine", "combineProgram", 0, dw, dh,
                                  << bloomResources.originalTexture,
                                     BloomInput(bloomResources, 1),
                                     BloomInput(bloomResources, 2),
                                     BloomInput(bloomResources, 3) >>, 0))
  /\ IF source = Untracked THEN display' = display
     ELSE \E rnd \in { 2500, 7500 }, wave \in { 0, ONE } :
            display' =
              [ uv \in Probes |->
                  CombineAt(uv, ReadPix(pix, bloomResources.originalTexture),
                            ReadPix(pix, BloomInput(bloomResources, 1)),
                            ReadPix(pix, BloomInput(bloomResources, 2)),
                            ReadPix(pix, BloomInput(bloomResources, 3)),
                            rnd, wave) ]
  /\ screen' = "frame"
  /\ pc' = "schedule"
  /\ UNCHANGED << bootDone, attempts, hostVars, paramVars, termVars, frag, kev, keyVars, shown, source, pix, fx, canvasW, canvasH, dw, dh, offW,
                  offH, pending, nextId, glTex, glFb, bloomResources, acq,
                  level, currentTexture >>

\* requestAnimationFrame(draw), the last statement of draw
DrawSchedule ==
  /\ pc = "schedule"
  /\ pending' = RequestAnimationFrame(pending)
  /\ trace' = Append(trace, Step("schedule"))
  /\ pc' = "idle"
  /\ UNCHANGED << bootDone, attempts, hostVars, paramVars, termVars, frag, kev, keyVars, shown, pixVars, canvasW, canvasH, dw, dh, offW,
                  offH, screen, nextId, glTex, glFb, bloomResources, acq, level,
                  currentTexture >>

\* the host window changes size or pixel ratio between two frames
HostResize ==
  /\ pc = "idle"
  /\ resizes < MaxResizes
  /\ \E w \in 0..MaxHost, h \in HostHeights, r \in Dprs :
       /\ << w, h, r >> # << hostW, hostH, dpr >>
       /\ hostW' = w
       /\ hostH' = h
       /\ dpr' = r
  /\ resizes' = resizes + 1
  /\ UNCHANGED << pc, bootDone, attempts, scales, frameVars, paramVars, termVars, frag, kev, keyVars, shown, pixVars >>

Next ==
  \/ GetContext
  \/ CreateShader
  \/ CreateProgram
  \/ InitialDraw
  \/ AnimationFrame
  \/ DrawResize
  \/ DrawRaster
  \/ DrawAcquire
  \/ DrawUpload
  \/ DrawBright
  \/ DrawBlurH
  \/ DrawBlurV
  \/ DrawCombine
  \/ DrawSchedule
  \/ HostResize

Spec == Init /\ [][Next]_vars

\* ------------------------------------------------ events between frames
eventFrame == << pc, bootDone, attempts, hostVars, frameVars, frag, kev, keyVars, shown, pixVars >>

\* nextTheme(), called by the importing module
NextTheme ==
  /\ pc = "idle"
  /\ Len(themeHist) <= MaxThemeCalls
  /\ currentThemeIndex' = NextThemeIndex(currentThemeIndex)
  /\ themeHist' = Append(themeHist, currentThemeIndex')
  /\ UNCHANGED << eventFrame, threshold, intensity, termVars >>

\* document.onclick
Click ==
  /\ pc = "idle"
  /\ ~ focused
  /\ focused' = TRUE
  /\ UNCHANGED << eventFrame, paramVars, loadTimer, chimes >>

FrameActions ==
  \/ GetContext
  \/ CreateShader
  \/ CreateProgram
  \/ InitialDraw
  \/ AnimationFrame
  \/ DrawResize
  \/ DrawRaster
  \/ DrawAcquire
  \/ DrawUpload
  \/ DrawBright
  \/ DrawBlurH
  \/ DrawBlurV
  \/ DrawCombine
  \/ DrawSchedule

\* the frame loop with nextTheme calls between frames
NextThemes == FrameActions \/ NextTheme

\* ------------------------------------------------ the shaders on their own
pipelineVars == << pc, bootDone, attempts, hostVars, frameVars, paramVars,
                   termVars, pixVars, keyVars, shown >>

InitShader ==
  /\ InitCommon
  /\ hostW = 1 /\ hostH = 1 /\ dpr = 10
  /\ scales = << 1000 >>
  /\ threshold = 900
  /\ intensity = 6
  /\ source = Untracked
  /\ pix = << >>
  /\ display = << >>
  /\ fx = DefaultFx
  /\ frag \in BrightRuns \cup CombineRuns
  /\ kev = NoKeyRun

RunBrightPass ==
  /\ frag.kind = "bright"
  /\ ~ frag.done
  /\ frag' = [ frag EXCEPT !.out = BrightPass(frag.original, frag.threshold),
                        !.done = TRUE ]
  /\ UNCHANGED << pipelineVars, kev >>

RunCombine ==
  /\ frag.kind = "combine"
  /\ ~ frag.done
  /\ frag' = [ frag EXCEPT !.out = CombineShader(frag), !.done = TRUE ]
  /\ UNCHANGED << pipelineVars, kev >>

NextShader == RunBrightPass \/ RunCombine

SpecShader == InitShader /\ [][NextShader]_vars

\* --------------------------------- the frame loop with pixels followed
\* a 100x100 display, two scales, a terminal image of one colour
InitPixels ==
  /\ InitCommon
  /\ hostW = 100 /\ hostH = 100 /\ dpr = 10
  /\ scales = << 1000, 500 >>
  /\ threshold \in { 500, 990 }
  /\ intensity \in { 0, 10 }
  /\ frag = NoRun
  /\ kev = NoKeyRun
  /\ source \in { WhiteBytes, GreyBytes, BlackBytes }
  /\ pix = << >>
  /\ display = << >>
  /\ fx \in { DefaultFx, NeutralFx }

NextPixels == FrameActions \/ NextTheme

SpecPixels == InitPixels /\ [][NextPixels]_vars

\* --------------------------------------------- the key handler on its own
InitKeyHandler ==
  /\ InitCommon
  /\ hostW = 1 /\ hostH = 1 /\ dpr = 10
  /\ scales = << 1000 >>
  /\ threshold = 900
  /\ intensity = 6
  /\ InitNoPixels
  /\ kev \in KeyRuns

RunKeyDown ==
  /\ kev.key # "none"
  /\ ~ kev.done
  /\ kev' = [ kev EXCEPT !.outText = OnKeyDown(kev.text, kev.prompt, kev.key).text,
                         !.outPrompt = OnKeyDown(kev.text, kev.prompt, kev.key).prompt,
                         !.done = TRUE ]
  /\ UNCHANGED << pipelineVars, frag >>

NextKeyHandler == RunKeyDown

SpecKeyHandler == InitKeyHandler /\ [][NextKeyHandler]_vars

\* ------------------------------- the frame loop with clicks and key events
\* the lines the user types: a key is pressed only if it continues one of them
TypedLines == { Help, Clear, << " ", "x" >> }
IsPrefix(s, t) == Len(s) <= Len(t) /\ s = SubSeq(t, 1, Len(s))
TypedKeys == { "h", "e", "l", "p", "c", "a", "r", " ", "x" }

InitKeys ==
  /\ InitCommon
  /\ hostW = 1 /\ hostH = 1 /\ dpr = 10
  /\ scales = << 1000, 500 >>
  /\ threshold = 900
  /\ intensity = 6
  /\ InitNoPixels
  /\ kev = NoKeyRun

\* window.onkeydown, between frames
KeyDown ==
  /\ pc = "idle"
  /\ \E key \in NamedKeys \cup TypedKeys :
       /\ key = "Enter" => Len(text) < MaxLines
       /\ key \in TypedKeys =>
            \E line \in TypedLines : IsPrefix(Append(prompt, key), line)
       /\ text' = OnKeyDown(text, prompt, key).text
       /\ prompt' = OnKeyDown(text, prompt, key).prompt
  /\ UNCHANGED << pc, bootDone, attempts, hostVars, frameVars, paramVars,
                  termVars, frag, kev, shown, pixVars >>

NextKeys == FrameActions \/ Click \/ KeyDown

SpecKeys == InitKeys /\ [][NextKeys]_vars

SpecTheme == Init /\ [][NextThemes]_vars

\* the frame loop with the click that focuses the terminal
NextTerminal == FrameActions \/ Click

SpecTerminal == Init /\ [][NextTerminal]_vars

\* ------------------------------------------- the draw of bootup-sound.ts
\* The second frame loop of the repository rasterizes the terminal first and
\* sizes the display surface afterwards; its scale list has four entries.
LegacyScales == << 1000, 500, 250, 125 >>

InitLegacy ==
  /\ InitCommon
  /\ InitHost
  /\ InitNoPixels
  /\ kev = NoKeyRun
  /\ scales = LegacyScales
  /\ threshold = 800
  /\ intensity = 15

LegacyInitialDraw == CallDraw("raster")

LegacyAnimationFrame == RunCallback("raster")

LegacyDrawRaster == RenderTerminalToOffscreen("resize")

LegacyDrawResize == ResizeCanvas("acquire")

\* the 'input' listeners of the threshold and intensity sliders
SliderThresholds == { 0, 500, 1000 }
SliderIntensities == { 0, 50 }

ThresholdSlider ==
  /\ pc = "idle"
  /\ \E v \in SliderThresholds : v # threshold /\ threshold' = v
  /\ UNCHANGED << eventFrame, intensity, currentThemeIndex, themeHist, termVars >>

IntensitySlider ==
  /\ pc = "idle"
  /\ \E v \in SliderIntensities : v # intensity /\ intensity' = v
  /\ UNCHANGED << eventFrame, threshold, currentThemeIndex, themeHist, termVars >>

NextLegacy ==
  \/ GetContext
  \/ CreateShader
  \/ CreateProgram
  \/ LegacyInitialDraw
  \/ LegacyAnimationFrame
  \/ LegacyDrawRaster
  \/ LegacyDrawResize
  \/ DrawAcquire
  \/ DrawUpload
  \/ DrawBright
  \/ DrawBlurH
  \/ DrawBlurV
  \/ DrawCombine
  \/ DrawSchedule
  \/ HostResize

SpecLegacy == InitLegacy /\ [][NextLegacy]_vars

\* the frame loop with every writer of an effect parameter between frames:
\* nextTheme and the two slider listeners on bloomConfig
NextParams == FrameActions \/ NextTheme \/ ThresholdSlider \/ IntensitySlider

SpecParams == Init /\ [][NextParams]_vars

\* ================================================================ claims
FrameSteps == { "resize", "raster", "acquire", "upload", "bright", "blurH",
                "blurV", "combine", "schedule" }
PassStages == { "upload", "bright", "blurH", "blurV", "combine" }
IsPass(e) == e.stage \in PassStages
IsDrawCall(e) == e.program # "none"
PassTrace == SelectSeq(trace, IsPass)
DrawCalls == SelectSeq(trace, IsDrawCall)
Positions(stage) == { i \in 1..Len(trace) : trace[i].stage = stage }

C2_SameSizeReusesPool ==
  [][ ( /\ pc = "acquire"
        /\ bloomResources # Null
        /\ bloomResources.width = dw
        /\ bloomResources.height = dh )
      => ( /\ bloomResources' = bloomResources
           /\ glTex' = glTex
           /\ glFb' = glFb
           /\ nextId' = nextId
           /\ pc' = "upload" ) ]_vars

\* a frame after the first one found the pool of the previous frame
C2_Witness ==
  /\ acq.kind = "hit"
  /\ pc = "upload"
  /\ Len(scales) > 1
  /\ bloomResources.width = dw
  /\ bloomResources.height = dh

\* C3: a pool holds exactly 2 + 2*(len(scales)-1) targets: original and bright
\* of the output size, and per entry of scales[1:] a scratch and a result
\* target of size max(1, floor(w*scale)) x max(1, floor(h*scale)).
C3_PoolShape ==
  (pc # "halted" /\ bloomResources # Null) =>
    LET res == bloomResources
        n == Len(scales) - 1
    IN  /\ Cardinality(PoolTextures(res)) = 2 + 2 * n
        /\ Len(res.blurTextures) = n
        /\ Len(res.tempTextures) = n
        /\ glTex[res.originalTexture] = << res.width, res.height >>
        /\ glTex[res.brightTexture] = << res.width, res.height >>
        /\ \A j \in 1..n :
             LET sw == Max(1, (res.width * scales[j + 1]) \div 1000)
                 sh == Max(1, (res.height * scales[j + 1]) \div 1000)
             IN  /\ glTex[res.tempTextures[j]] = << sw, sh >>
                 /\ glTex[res.blurTextures[j]] = << sw, sh >>

\* a freshly built pool with a level whose scaled width is clamped to 1
C3_Witness ==
  /\ acq.kind = "built"
  /\ pc = "upload"
  /\ Len(scales) > 2
  /\ \E j \in 2..Len(scales) : (bloomResources.width * scales[j]) \div 1000 = 0

\* C4: while the passes of a frame run, the pool's width and height are the
\* display surface's, and each blur pass uses as viewport the allocated size
\* of the target it writes (scratch for horizontal, result for vertical).
C4_SizesConsistent ==
  /\ pc \in { "upload", "bright", "blurH", "blurV", "combine", "schedule" } =>
       /\ bloomResources.width = canvasW
       /\ bloomResources.height = canvasH
  /\ \A i \in 1..Len(trace) :
       LET e == trace[i]
       IN  /\ e.stage = "blurH" =>
                << e.vw, e.vh >> = glTex[bloomResources.tempTextures[e.lvl + 1]]
           /\ e.stage = "blurV" =>
                << e.vw, e.vh >> = glTex[bloomResources.blurTextures[e.lvl + 1]]

\* a blur level whose size is rounded down has run both passes
C4_Witness ==
  /\ pc = "combine"
  /\ resizes >= 1
  /\ \E i \in 1..Len(trace) :
       /\ trace[i].stage = "blurV"
       /\ (canvasW * scales[trace[i].lvl + 2]) % 1000 # 0
       /\ trace[i].vw > 1

\* C5: at most one frame is queued or running, a frame has issued all its
\* steps when the next one can start, and a completed frame has queued
\* exactly one callback.
C5_FramesSequential ==
  /\ pending + (IF pc \in FrameSteps THEN 1 ELSE 0) <= 1
  /\ pc \in FrameSteps => pending = 0
  /\ pc = "idle" =>
       /\ pending = 1
       /\ Len(trace) = 7 + 2 * Len(bloomResources.blurTextures)
       /\ trace[Len(trace)].stage = "schedule"
       /\ trace[Len(trace) - 1].stage = "combine"
       /\ Cardinality(Positions("schedule")) = 1

\* a second frame has completed and queued its successor
C5_Witness ==
  /\ pc = "idle"
  /\ pending = 1
  /\ acq.kind = "hit"
  /\ screen = "frame"

\* C6: the passes of a frame are upload, bright-pass, then per level in
\* ascending order horizontal and vertical blur, then combine: 2 + 2*levels
\* draw calls when the frame is complete, and only the combine pass draws to
\* the display surface (framebuffer 0).
C6_PassOrder ==
  LET n == Len(bloomResources.blurTextures)
      Expected(i) ==
        IF i = 1 THEN "upload"
        ELSE IF i = 2 THEN "bright"
        ELSE IF i = 3 + 2 * n THEN "combine"
        ELSE IF i % 2 = 1 THEN "blurH" ELSE "blurV"
  IN  /\ Len(PassTrace) <= 3 + 2 * n
      /\ \A i \in 1..Len(PassTrace) :
           /\ PassTrace[i].stage = Expected(i)
           /\ PassTrace[i].stage \in { "blurH", "blurV" } =>
                PassTrace[i].lvl = (i - 3) \div 2
      /\ \A i \in 1..Len(DrawCalls) :
           (DrawCalls[i].target = 0) <=> (DrawCalls[i].stage = "combine")
      /\ pc \in { "schedule", "idle" } =>
           /\ Len(DrawCalls) = 2 + 2 * n
           /\ Len(PassTrace) = 3 + 2 * n

\* a complete frame of the five-entry scale list: ten draw calls
C6_Witness ==
  /\ pc = "idle"
  /\ Len(scales) = 5
  /\ Len(DrawCalls) = 10

\* C7: the horizontal pass of level i reads the bright target for i = 0 and
\* the result target of level i-1 otherwise, never the original target, and
\* writes scratch target i; the vertical pass of level i comes right after
\* it, reads scratch target i and writes result target i.
C7_BlurCascade ==
  \A i \in 1..Len(trace) :
    LET e == trace[i]
        res == bloomResources
    IN  /\ e.stage = "blurH" =>
             /\ e.inputs = << IF e.lvl = 0 THEN res.brightTexture
                              ELSE res.blurTextures[e.lvl] >>
             /\ e.inputs[1] # res.originalTexture
             /\ e.target = res.tempFramebuffers[e.lvl + 1]
             /\ glFb[e.target] = res.tempTextures[e.lvl + 1]
        /\ e.stage = "blurV" =>
             /\ i > 1
             /\ trace[i - 1].stage = "blurH"
             /\ trace[i - 1].lvl = e.lvl
             /\ e.inputs = << res.tempTextures[e.lvl + 1] >>
             /\ e.target = res.blurFramebuffers[e.lvl + 1]
             /\ glFb[e.target] = res.blurTextures[e.lvl + 1]

\* the vertical pass of the third level has run
C7_Witness ==
  /\ pc = "blurH"
  /\ level = 3
  /\ trace[Len(trace)].stage = "blurV"
  /\ trace[Len(trace)].lvl = 2

\* C8: in every frame the display surface is resized before the source image
\* is requested, and the source image is requested before the pool is
\* acquired and before any pass runs.
C8_ResizeBeforeRaster ==
  \A i \in 1..Len(trace) :
    /\ trace[i].stage = "raster" =>
         \E j \in 1..(i - 1) : trace[j].stage = "resize"
    /\ trace[i].stage \in PassStages \cup { "acquire" } =>
         \E j \in 1..(i - 1) : trace[j].stage = "raster"

\* C9: after a fatal error (no graphics context, a shader that does not
\* compile, a program that does not link, an incomplete framebuffer) nothing
\* runs any more: the display surface is blank, the failing frame issued no
\* pass, no callback is queued, and no startup step ran twice.
C9_FatalHalts ==
  /\ \A s \in BootSteps : attempts[s] <= 1
  /\ \A i \in 1..Len(BootSeq) : attempts[BootSeq[i]] = 1 => bootDone >= i - 1
  /\ (pc = "boot" /\ bootDone < Len(BootSeq)) => attempts[BootSeq[bootDone + 1]] = 0
  /\ acq.kind = "failed" => pc = "halted"
  /\ pc = "halted" =>
       /\ bootDone < Len(BootSeq) \/ acq.kind = "failed"
       /\ screen = "blank"
       /\ pending = 0
       /\ Len(PassTrace) = 0
       /\ ~ ENABLED Next

\* a rebuild after a resize failed on an incomplete framebuffer
C9_Witness ==
  /\ pc = "halted"
  /\ acq.kind = "failed"
  /\ resizes >= 1
  /\ bloomResources # Null

\* C10: bloom input k of the combine pass is blur result k-1 when the pool has
\* it and the bright-pass target otherwise, and the frame completes.
C10_MissingBloomInputs ==
  /\ \A i \in 1..Len(trace) :
       trace[i].stage = "combine" =>
         /\ Len(trace[i].inputs) = 4
         /\ \A k \in 1..3 :
              trace[i].inputs[k + 1] =
                IF k <= Len(bloomResources.blurTextures)
                THEN bloomResources.blurTextures[k]
                ELSE bloomResources.brightTexture
  /\ pc = "combine" => ENABLED DrawCombine
  /\ pc = "schedule" => ENABLED DrawSchedule

\* a frame of a pool with one blur result completed: inputs 2 and 3 are bright
C10_Witness ==
  /\ pc = "idle"
  /\ Len(bloomResources.blurTextures) = 1
  /\ trace[Len(trace) - 1].stage = "combine"
  /\ trace[Len(trace) - 1].inputs[2] = bloomResources.blurTextures[1]
  /\ trace[Len(trace) - 1].inputs[3] = bloomResources.brightTexture
  /\ trace[Len(trace) - 1].inputs[4] = bloomResources.brightTexture

\* C16: currentThemeIndex stays inside [0, THEMES.length); each nextTheme call
\* moves it to (index + 1) mod THEMES.length, so THEMES.length consecutive
\* calls bring it back; a frame's combine pass uses THEMES[currentThemeIndex].
C16_ThemeCycle ==
  /\ currentThemeIndex \in 0 .. Len(THEMES) - 1
  /\ currentThemeIndex = themeHist[Len(themeHist)]
  /\ \A k \in 1 .. Len(themeHist) - 1 :
        themeHist[k + 1] = (themeHist[k] + 1) % Len(THEMES)
  /\ \A k \in 1 .. Len(themeHist) - Len(THEMES) :
        themeHist[k + Len(THEMES)] = themeHist[k]
  /\ pc \in FrameSteps =>
       \A i \in Positions("combine") :
         trace[i].uniforms.tint = THEMES[currentThemeIndex + 1]

C16_Witness ==
  /\ Len(themeHist) = Len(THEMES) + 1
  /\ Positions("combine") # { }
  /\ pc = "schedule"

\* C17: the parameter values every pass of a frame hands to the GPU are the
\* values the store holds during that frame (the ones written before it
\* started), and no step of a frame changes the store.
C17_PassesUseStore ==
  pc \in FrameSteps =>
    /\ \A i \in Positions("bright") : trace[i].uniforms.threshold = threshold
    /\ \A i \in Positions("combine") :
          /\ trace[i].uniforms.intensity = intensity
          /\ trace[i].uniforms.tint = THEMES[(currentThemeIndex % Len(THEMES)) + 1]

C17_WritesTakeEffectNextFrame ==
  [][ /\ C17_PassesUseStore'
      /\ pc \in FrameSteps =>
            UNCHANGED << threshold, intensity, currentThemeIndex >> ]_vars

C17_Witness ==
  /\ pc = "schedule"
  /\ threshold = 500
  /\ intensity = 50
  /\ currentThemeIndex = 2
  /\ Positions("bright") # { }
  /\ Positions("combine") # { }

\* C18: once a frame has rasterized the terminal, the source image has the
\* width and height of the display surface (host size times pixel ratio,
\* truncated), the upload gives the original texture that size, and the
\* frame has rasterized exactly once.
AfterRaster == { "acquire", "upload", "bright", "blurH", "blurV", "combine",
                 "schedule" }

C18_SourceMatchesDisplay ==
  pc \in AfterRaster =>
    /\ offW = canvasW
    /\ offH = canvasH
    /\ canvasW = (hostW * dpr) \div 10
    /\ canvasH = (hostH * dpr) \div 10
    /\ Cardinality(Positions("raster")) = 1
    /\ \A i \in Positions("upload") :
          /\ trace[i].vw = canvasW
          /\ trace[i].vh = canvasH
          /\ glTex[bloomResources.originalTexture] = << canvasW, canvasH >>

C18_Witness ==
  /\ pc = "schedule"
  /\ dpr = 25
  /\ hostW = 1
  /\ offW = 2
  /\ resizes > 0
  /\ Positions("upload") # { }

\* C19: for each of the four programs, every uniform and attribute name its
\* shaders declare is resolved from that program, and every draw call uses
\* only handles resolved from the program it runs.
Programs == { "baseProgram", "brightPassProgram", "blurProgram", "combineProgram" }

C19_HandlesFromOwnProgram ==
  /\ bootDone = Len(BootSeq) =>
       \A p \in Programs : \A n \in StageNames(p) : Handle(p, n) \in ResolvedHandles
  /\ \A i \in 1 .. Len(trace) :
        IsDrawCall(trace[i]) =>
          \A h \in trace[i].handles : h.program = trace[i].program

\* the draw calls alone: each uses its own program's uniform handles and the
\* two attribute handles of baseProgram
C19_PassHandles ==
  \A i \in 1 .. Len(trace) :
    IsDrawCall(trace[i]) =>
      /\ { h \in trace[i].handles : h.program # trace[i].program }
           = { positionAttributeLocation, texCoordAttributeLocation }
      /\ { h.name : h \in { g \in trace[i].handles : g.program = trace[i].program } }
           = StageNames(trace[i].program)
               \ ( VertexShaderNames \ ( IF trace[i].program = "combineProgram"
                                            THEN { } ELSE { "u_flipY" } ) )

\* C20: the startup chime is played at most once, by the rasterization that
\* takes loadTimer from below loadTime to loadTime or above while focused;
\* no step before focus and no step after loading plays it.
C20_ChimeState ==
  /\ chimes \in { 0, 1 }
  /\ chimes = 1 <=> loadTimer >= loadTime
  /\ ~ focused => loadTimer = 0

C20_ChimeOnce ==
  [][ /\ C20_ChimeState'
      /\ chimes' # chimes <=>
            /\ pc = "raster"
            /\ focused
            /\ loadTimer < loadTime
            /\ loadTimer' >= loadTime ]_vars

C20_Witness ==
  /\ chimes = 1
  /\ loadTimer = loadTime
  /\ pc = "raster"

\* C11: the bright pass returns its input pixel when the luminance
\* 0.299 R + 0.587 G + 0.114 B is above the threshold and opaque black
\* (0, 0, 0, 1) otherwise, equality included.
C11_BrightPass ==
  frag.kind = "bright" /\ frag.done =>
    LET L1000 == 299 * frag.original.r + 587 * frag.original.g + 114 * frag.original.b
        T1000 == frag.threshold * ONE
    IN  /\ L1000 > T1000 => frag.out = frag.original
        /\ L1000 < T1000 => frag.out = Vec4(0, 0, 0, ONE)
        /\ L1000 = T1000 => frag.out = Vec4(0, 0, 0, ONE)

C11_Witness ==
  /\ frag.kind = "bright"
  /\ frag.done
  /\ frag.original = Vec4(0, ONE, 0, 5000)
  /\ frag.threshold = 587
  /\ frag.out = Vec4(0, 0, 0, ONE)

\* the settings C13 names, the plain sum original + (b1 + b2 + b3) * intensity
\* of a combine evaluation, and the coordinate it samples at
NeutralRun ==
  /\ frag.kind = "combine"
  /\ frag.done
  /\ frag.noiseIntensity = 0
  /\ frag.scanlineIntensity = 0
  /\ frag.curvature = 0
  /\ frag.vignetteStrength = 0
  /\ frag.tint = Tint(ONE, ONE, ONE)

PlainSum ==
  Vec4(frag.original.r + ((frag.bloom1.r + frag.bloom2.r + frag.bloom3.r) * frag.intensity) \div ONE,
       frag.original.g + ((frag.bloom1.g + frag.bloom2.g + frag.bloom3.g) * frag.intensity) \div ONE,
       frag.original.b + ((frag.bloom1.b + frag.bloom2.b + frag.bloom3.b) * frag.intensity) \div ONE,
       frag.original.a + ((frag.bloom1.a + frag.bloom2.a + frag.bloom3.a) * frag.intensity) \div ONE)

SampledAt == curveScreen(frag.uv, frag.curvature, frag.screenScale)

\* C13 as stated: with noise, scanline, curvature and vignette strength at 0
\* and a white tint, the combine output is exactly
\* original + (bloom1 + bloom2 + bloom3) * intensity.
C13_PlainSum == NeutralRun => frag.out = PlainSum

\* C13, amended: under those settings the output's alpha is that of the sum
\* and its colour channels are those of the sum times the horizontal fade
\* 0.9 + 0.1 sin(pi y), y the vertical sampling coordinate; nothing else.
C13_SumTimesFade ==
  NeutralRun =>
    LET fade == 9000 + (SinPi(SampledAt.y) * 1000) \div ONE
    IN  frag.out = Vec4((PlainSum.r * fade) \div ONE, (PlainSum.g * fade) \div ONE,
                        (PlainSum.b * fade) \div ONE, PlainSum.a)

C13_Witness ==
  /\ NeutralRun
  /\ frag.uv.y = 0
  /\ frag.intensity = 6000
  /\ frag.bloom1 = White
  /\ frag.out.r < PlainSum.r
  /\ frag.out.a = PlainSum.a

\* C14: with intensity 0 the combine output is what the shader gives for the
\* same pixel and settings with all three bloom inputs empty: it does not
\* depend on the bloom inputs.
C14_ZeroIntensityIgnoresBloom ==
  frag.kind = "combine" /\ frag.done /\ frag.intensity = 0 =>
    frag.out = CombineShader([ frag EXCEPT !.bloom1 = Black, !.bloom2 = Black,
                                          !.bloom3 = Black ])

C14_Witness ==
  /\ frag.kind = "combine"
  /\ frag.done
  /\ frag.intensity = 0
  /\ frag.bloom1 = Grey /\ frag.bloom2 = Grey /\ frag.bloom3 = Grey
  /\ frag.noiseIntensity > 0
  /\ frag.scanlineIntensity > 0
  /\ frag.out # OpaqueBlack

\* C15: when the curved sampling coordinate has x or y outside [0, 1] the
\* combine output is opaque black (0, 0, 0, 1), whatever the texels and the
\* tint, noise, scanline and vignette parameters.
C15_OutsideIsBlack ==
  frag.kind = "combine" /\ frag.done =>
    ( SampledAt.x < 0 \/ SampledAt.x > ONE \/ SampledAt.y < 0 \/ SampledAt.y > ONE
        => frag.out = Vec4(0, 0, 0, ONE) )

C15_Witness ==
  /\ frag.kind = "combine"
  /\ frag.done
  /\ SampledAt.x > ONE
  /\ SampledAt.y \in 0 .. ONE
  /\ frag.original = White
  /\ frag.bloom1 = White
  /\ frag.intensity = ONE
  /\ frag.noiseIntensity > 0
  /\ frag.out = Vec4(0, 0, 0, ONE)

\* C12: on a 100x100 display with scales [1.0, 0.5], threshold 0.99,
\* intensity 1.0, a fully white source, every effect off and a white tint:
\* the bright-pass target is white, the one blur stage leaves a white 50x50
\* result target, and the displayed frame is white.
WhiteScenario ==
  /\ source = WhiteBytes
  /\ threshold = 990
  /\ intensity = 10
  /\ fx = NeutralFx
  /\ TERMINAL_TINT_COLOR = << 1000, 1000, 1000 >>

C12_BrightIsWhite ==
  WhiteScenario /\ pc \in { "blurH", "blurV", "combine", "schedule" } =>
    /\ glTex[bloomResources.brightTexture] = << 100, 100 >>
    /\ ReadPix(pix, bloomResources.brightTexture) = WhiteBytes

C12_BlurIsWhite ==
  WhiteScenario /\ pc \in { "combine", "schedule" } =>
    /\ Len(bloomResources.blurTextures) = 1
    /\ glTex[bloomResources.blurTextures[1]] = << 50, 50 >>
    /\ ReadPix(pix, bloomResources.blurTextures[1]) = WhiteBytes

C12_DisplayIsWhite ==
  WhiteScenario /\ pc = "schedule" =>
    /\ dw = 100 /\ dh = 100
    /\ \A uv \in Probes : display[uv] = WhiteBytes

C12_WhiteEndToEnd ==
  /\ C12_BrightIsWhite
  /\ C12_BlurIsWhite
  /\ C12_DisplayIsWhite

\* what the blur stage leaves instead: 0.90625 of white after the horizontal
\* pass, 0.90625 of that after the vertical pass
C12_BlurIsDimmed ==
  WhiteScenario /\ pc \in { "combine", "schedule" } =>
    /\ ReadPix(pix, bloomResources.tempTextures[1]) = Vec4(231, 231, 231, 231)
    /\ ReadPix(pix, bloomResources.blurTextures[1]) = Vec4(209, 209, 209, 209)

C12_Reached ==
  /\ WhiteScenario
  /\ pc = "schedule"
  /\ ReadPix(pix, bloomResources.brightTexture) = WhiteBytes
  /\ ReadPix(pix, bloomResources.blurTextures[1]) = Vec4(209, 209, 209, 209)
  /\ \A uv \in Probes : display[uv] = WhiteBytes

\* C21: the blur kernel's weights (centre plus twice each side weight) sum to
\* 1, so a horizontal plus vertical blur of a uniformly white texture leaves
\* a uniformly white texture.
C21_BlurKeepsUniform ==
  ( /\ source # Untracked
    /\ pc \in { "combine", "schedule" }
    /\ ReadPix(pix, bloomResources.brightTexture) = WhiteBytes )
  => /\ weights[1] + BlurTaps(1, 1) = 100000
     /\ \A j \in 1 .. Len(bloomResources.blurTextures) :
           ReadPix(pix, bloomResources.blurTextures[j]) = WhiteBytes

\* the older 9-tap kernel does keep white: its weights sum to 1 within the
\* fifth decimal, and two passes over white store 255
LegacyKernelKeepsWhite ==
  LET once == StoreRGBA8(Vec4(LegacyBlurChannel(ONE), LegacyBlurChannel(ONE),
                              LegacyBlurChannel(ONE), LegacyBlurChannel(ONE)))
      twice == LegacyBlurChannel(Texel(once).r)
  IN  /\ once = WhiteBytes
      /\ (twice * 255 + ONE \div 2) \div ONE = 255
      /\ legacyWeights[1] + LegacyBlurTaps(1, 1) \in 99999 .. 100000

\* C22: every texture and framebuffer a pass of the frame binds is live and
\* belongs to the pool the most recent build produced.
C22_BoundObjectsLive ==
  \A i \in 1 .. Len(trace) :
    IsPass(trace[i]) =>
      /\ \A k \in 1 .. Len(trace[i].inputs) :
            /\ trace[i].inputs[k] \in DOMAIN glTex
            /\ trace[i].inputs[k] \in PoolTextures(bloomResources)
      /\ trace[i].stage = "upload" =>
            /\ trace[i].target \in DOMAIN glTex
            /\ trace[i].target \in PoolTextures(bloomResources)
      /\ trace[i].stage \in { "bright", "blurH", "blurV" } =>
            /\ trace[i].target \in DOMAIN glFb
            /\ trace[i].target \in PoolFramebuffers(bloomResources)
            /\ glFb[trace[i].target] \in DOMAIN glTex
      /\ trace[i].stage = "combine" => trace[i].target = 0

C22_Witness ==
  /\ pc = "schedule"
  /\ resizes >= 1
  /\ acq.kind = "built"
  /\ acq.released # { }
  /\ Len(scales) = 5
  /\ Positions("combine") # { }
  /\ \A i \in Positions("upload") : trace[i].target \in acq.allocated

\* C23: when a rebuild after a resolution change stops on an incomplete
\* framebuffer, every object of the previous pool is already released, the
\* pool variable still holds that pool with its old width and height, the
\* objects created by the failed rebuild are live and in no pool, and the
\* script has halted.
C23_FailedRebuildNotRolledBack ==
  ( acq.kind = "failed" /\ bloomResources # Null ) =>
    /\ pc = "halted"
    /\ acq.released = PoolTextures(bloomResources) \cup PoolFramebuffers(bloomResources)
    /\ acq.released \cap (DOMAIN glTex \cup DOMAIN glFb) = { }
    /\ << bloomResources.width, bloomResources.height >> # << dw, dh >>
    /\ acq.allocated # { }
    /\ acq.allocated = DOMAIN glTex \cup DOMAIN glFb
    /\ acq.allocated \cap (PoolTextures(bloomResources)
                             \cup PoolFramebuffers(bloomResources)) = { }

C23_Witness ==
  /\ pc = "halted"
  /\ acq.kind = "failed"
  /\ bloomResources # Null
  /\ Len(scales) = 5
  /\ Cardinality(acq.allocated) > 3
  /\ Cardinality(acq.released) = 19
  /\ dw > 0 /\ dh > 0

\* C24: the combine pass reads the original texture and blur results 0, 1
\* and 2 only; with the five-entry scale list the cascade writes four blur
\* results and the fourth is read by no later pass of the frame.
C24_FourthBlurUnread ==
  ( pc = "schedule" /\ Len(scales) = 5 ) =>
    /\ { trace[i].lvl : i \in Positions("blurV") } = 0 .. 3
    /\ \A i \in Positions("blurV") :
          glFb[trace[i].target] = bloomResources.blurTextures[trace[i].lvl + 1]
    /\ \A i \in Positions("combine") :
          trace[i].inputs = << bloomResources.originalTexture,
                               bloomResources.blurTextures[1],
                               bloomResources.blurTextures[2],
                               bloomResources.blurTextures[3] >>
    /\ \A i \in 1 .. Len(trace) : \A j \in 1 .. Len(trace) :
          ( trace[i].stage = "blurV" /\ trace[i].lvl = 3 /\ j > i ) =>
            \A k \in 1 .. Len(trace[j].inputs) :
              trace[j].inputs[k] # bloomResources.blurTextures[4]

C24_Witness ==
  /\ pc = "schedule"
  /\ Len(scales) = 5
  /\ Cardinality(Positions("blurV")) = 4
  /\ Cardinality(Positions("combine")) = 1

\* the trimmed prompt and its first space-separated token, stated directly:
\* the trimmed prompt is the part left when the spaces at both ends are cut,
\* the token is its longest space-free prefix
AllSpaces(s) == \A i \in 1 .. Len(s) : s[i] = " "

TrimmedPrompt(p) ==
  LET cut == CHOOSE c \in (1 .. Len(p) + 1) \X (0 .. Len(p)) :
               /\ AllSpaces(SubSeq(p, 1, c[1] - 1))
               /\ AllSpaces(SubSeq(p, c[2] + 1, Len(p)))
               /\ IF c[1] <= c[2] THEN p[c[1]] # " " /\ p[c[2]] # " "
                  ELSE c[1] = c[2] + 1
  IN  SubSeq(p, cut[1], cut[2])

TokenOf(t) ==
  LET n == CHOOSE m \in 0 .. Len(t) :
             /\ \A k \in 1 .. m : t[k] # " "
             /\ m = Len(t) \/ t[m + 1] = " "
  IN  SubSeq(t, 1, n)

EnterRun == kev.done /\ kev.key = "Enter"

\* C26: an Enter key with prompt p appends the echo line "> " + p + " ";
\* then, cmd being the first token of the trimmed p, "help" appends the help
\* line, an empty trimmed input appends nothing, and any other cmd but
\* "clear" appends "Unknown command: " + cmd + " "; the prompt ends empty.
C26_EnterCommands ==
  EnterRun =>
    LET echo == << ">", " " >> \o kev.prompt \o << " " >>
        trimmed == TrimmedPrompt(kev.prompt)
        cmd == TokenOf(trimmed)
    IN  /\ kev.outPrompt = << >>
        /\ cmd = Help => kev.outText = kev.text \o << echo, HelpLine >>
        /\ trimmed = << >> => kev.outText = kev.text \o << echo >>
        /\ ( trimmed # << >> /\ cmd # Help /\ cmd # Clear ) =>
              kev.outText =
                kev.text \o << echo, UnknownCommand \o cmd \o << " " >> >>

C26_Witness ==
  /\ EnterRun
  /\ kev.prompt = << " ", "x" >>
  /\ kev.text = << WelcomeLine >>
  /\ Len(kev.outText) = 3
  /\ kev.outText[3] = UnknownCommand \o << "x", " " >>

\* C27: after an Enter key whose trimmed prompt has "clear" as first token
\* the scrollback is empty, whatever it held before, the echo line included.
C27_ClearEmptiesScrollback ==
  ( EnterRun /\ TokenOf(TrimmedPrompt(kev.prompt)) = Clear ) =>
    /\ kev.outText = << >>
    /\ kev.outPrompt = << >>

C27_Witness ==
  /\ EnterRun
  /\ kev.prompt = << " ", " " >> \o Clear \o << " ", "x" >>
  /\ Len(kev.text) = 3
  /\ kev.outText = << >>

\* C25: the boot phase only moves forward: focused never goes back to false,
\* the load timer never decreases and changes only in a rasterization done
\* while focused and below the load time, and once the timer has reached the
\* load time every rasterization draws the scrollback and the prompt.
C25_PhaseForward ==
  [][ /\ focused => focused'
      /\ loadTimer' >= loadTimer
      /\ loadTimer' # loadTimer =>
            pc = "raster" /\ focused /\ loadTimer < loadTime
      /\ ( pc = "raster" /\ pc' # "raster" /\ loadTimer >= loadTime ) =>
            shown' = [ phase |-> "ready", text |-> text, prompt |-> prompt ]
      /\ shown.phase = "ready" => shown'.phase = "ready"
      /\ shown.phase = "loading" => shown'.phase \in { "loading", "ready" }
      /\ shown.phase = "click" => shown'.phase \in { "click", "loading" } ]_vars

C25_Witness ==
  /\ shown.phase = "ready"
  /\ loadTimer = loadTime
  /\ chimes = 1
  /\ pc = "raster"

\* C28: a key event changes prompt and scrollback in every boot phase as the
\* handler prescribes, touching nothing else, and a frame rasterized in the
\* ready phase shows the scrollback and prompt all earlier keys produced.
C28_ReadyFrameShowsState ==
  /\ ( pc \in AfterRaster /\ shown.phase = "ready" ) =>
       shown.text = text /\ shown.prompt = prompt
  /\ pc = "idle" => ENABLED ( KeyDown /\ keyVars' # keyVars )

C28_KeysInEveryPhase ==
  [][ /\ C28_ReadyFrameShowsState'
      /\ keyVars' # keyVars =>
            /\ pc = "idle"
            /\ UNCHANGED << pc, focused, loadTimer, shown >>
            /\ \E key \in NamedKeys \cup TypedKeys :
                  /\ text' = OnKeyDown(text, prompt, key).text
                  /\ prompt' = OnKeyDown(text, prompt, key).prompt ]_vars

C28_Witness ==
  /\ pc = "schedule"
  /\ shown.phase = "ready"
  /\ shown.text = << promptMarker \o << " " >> >>
  /\ shown.prompt = << "h", "e" >>
  /\ text = shown.text
  /\ prompt = shown.prompt

====
